---- MODULE Spec2Model ----
(***************************************************************************)
(* Model of app.py (Marathon Production web server): the MarathonRobot     *)
(* browser-automation workflow, the run_marathon socket handler with its   *)
(* background worker, and the JSON-file run ledger.                        *)
(*                                                                         *)
(* Three specifications share the same run_marathon actions:               *)
(*   Spec      - the server: every 'run_marathon' socket request is served *)
(*               by handle_marathon, which starts a worker thread that     *)
(*               builds its own MarathonRobot (run_task).                  *)
(*   SpecRobot - the MarathonRobot class on its own: two threads each call *)
(*               run_marathon once on one shared robot.                    *)
(*   SpecSeq   - the MarathonRobot class on its own: one thread calls      *)
(*               run_marathon / cleanup on one robot, call after call.     *)
(***************************************************************************)
EXTENDS Integers, Sequences, FiniteSets, TLC

\* ------------------------------------------------------------------------
\* Bounds
\* ------------------------------------------------------------------------
MaxCalls == 2        \* run_marathon calls made by the caller of SpecSeq
MaxList == 4         \* longest list given to validate_serials
MaxAdds == 55        \* BatchHistory.add calls made in SpecHistory
MaxRecords == 4      \* Statistics.record_batch calls made in SpecStats

Workers == {1, 2}    \* the socket requests of Spec, one worker thread each
Callers == {1, 2}    \* the threads sharing the robot in SpecRobot
LiveWorkers == {1}   \* the socket request of SpecLive
SeqCallers == {1}    \* the single thread of SpecSeq
Threads == Workers \cup Callers \cup SeqCallers
Robots == Threads    \* in Spec, robot t is the one built by worker t

\* ------------------------------------------------------------------------
\* Program constants
\* ------------------------------------------------------------------------
MAX_BATCHES == 50
MinSerialLen == 2
MaxSerialLen == 50
NumSteps == 10

None == <<>>         \* Python None for a handle

\* ------------------------------------------------------------------------
\* Text: a Python str is a sequence of one-character strings
\* ------------------------------------------------------------------------
UpperLetters ==
    <<"A","B","C","D","E","F","G","H","I","J","K","L","M",
      "N","O","P","Q","R","S","T","U","V","W","X","Y","Z">>
LowerLetters ==
    <<"a","b","c","d","e","f","g","h","i","j","k","l","m",
      "n","o","p","q","r","s","t","u","v","w","x","y","z">>
Digits == {"0","1","2","3","4","5","6","7","8","9"}
Whitespace == {" ", "\t", "\r", "\n"}

Range(s) == {s[i] : i \in 1..Len(s)}

\* the character class [A-Za-z0-9._-]
SerialChars == Range(UpperLetters) \cup Range(LowerLetters) \cup Digits \cup {".", "_", "-"}

\* str.upper() on one character
UpperChar(c) ==
    IF c \in Range(LowerLetters)
    THEN UpperLetters[CHOOSE i \in 1..26 : LowerLetters[i] = c]
    ELSE c

upper(s) == [i \in 1..Len(s) |-> UpperChar(s[i])]

startswith(s, prefix) ==
    /\ Len(prefix) <= Len(s)
    /\ SubSeq(s, 1, Len(prefix)) = prefix

\* str.strip()
RECURSIVE lstrip(_)
lstrip(s) == IF s # <<>> /\ Head(s) \in Whitespace THEN lstrip(Tail(s)) ELSE s

RECURSIVE rstrip(_)
rstrip(s) ==
    IF s # <<>> /\ s[Len(s)] \in Whitespace THEN rstrip(SubSeq(s, 1, Len(s) - 1)) ELSE s

strip(s) == rstrip(lstrip(s))

\* str.split('\n')
RECURSIVE split_lines(_)
split_lines(s) ==
    IF \E i \in 1..Len(s) : s[i] = "\n"
    THEN LET i == CHOOSE j \in 1..Len(s) : s[j] = "\n" /\ \A k \in 1..(j - 1) : s[k] # "\n"
         IN  <<SubSeq(s, 1, i - 1)>> \o split_lines(SubSeq(s, i + 1, Len(s)))
    ELSE <<s>>

\* the longest run of SerialChars starting at position i
RECURSIVE serial_run(_, _)
serial_run(s, i) ==
    IF i <= Len(s) /\ s[i] \in SerialChars THEN <<s[i]>> \o serial_run(s, i + 1) ELSE <<>>

\* re.search(r"[?&]s=([A-Za-z0-9._-]+)", line): positions where the pattern matches
url_match_at(line, i) ==
    /\ i + 3 <= Len(line)
    /\ line[i] \in {"?", "&"}
    /\ line[i + 1] = "s"
    /\ line[i + 2] = "="
    /\ line[i + 3] \in SerialChars

url_serial(line) ==
    LET hits == {i \in 1..Len(line) : url_match_at(line, i)}
    IN  IF hits = {} THEN None
        ELSE LET i == CHOOSE j \in hits : \A k \in hits : j <= k
             IN  serial_run(line, i + 3)

RECURSIVE clean_lines(_)
clean_lines(lines) ==
    IF lines = <<>> THEN <<>>
    ELSE LET line == strip(Head(lines))
             m == url_serial(line)
             serial == IF m # None THEN m ELSE line
         IN  IF line = <<>> THEN clean_lines(Tail(lines))
             ELSE IF serial # <<>> /\ Len(serial) >= MinSerialLen
                  THEN <<serial>> \o clean_lines(Tail(lines))
                  ELSE clean_lines(Tail(lines))

clean_serials(raw_text) == clean_lines(split_lines(raw_text))

\* the prefix table of detect_product, in source order
patterns ==
    << <<"HEX-MOD-DHT", << <<"H","E","X","-","M","O","D","-","D","H","T">>, <<"H","E","X","M","O","D","D","H","T">> >> >>,
       <<"HEX-MOD-LHT", << <<"H","E","X","-","M","O","D","-","L","H","T">>, <<"H","E","X","M","O","D","L","H","T">> >> >>,
       <<"HEX-MOD-SHT", << <<"H","E","X","-","M","O","D","-","S","H","T">>, <<"H","E","X","M","O","D","S","H","T">> >> >>,
       <<"HEX-MOD-SDP", << <<"H","E","X","-","M","O","D","-","S","D","P">>, <<"H","E","X","M","O","D","S","D","P">> >> >>,
       <<"HEX-MOD-ULT", << <<"H","E","X","-","M","O","D","-","U","L","T">>, <<"H","E","X","M","O","D","U","L","T">> >> >>,
       <<"HEX-T-C", << <<"H","E","X","-","T","-","C">>, <<"H","E","X","T","C">> >> >>,
       <<"HEX-T-R", << <<"H","E","X","-","T","-","R">>, <<"H","E","X","T","R">> >> >>,
       <<"HEX-P", << <<"H","E","X","-","P">>, <<"H","E","X","P">> >> >>,
       <<"HEX-N", << <<"H","E","X","-","N">>, <<"H","E","X","N">> >> >>,
       <<"HEX-W", << <<"H","E","X","-","W">>, <<"H","E","X","W">> >> >>,
       <<"HEX-G", << <<"H","E","X","-","G">>, <<"H","E","X","G">> >> >>,
       <<"HEX-L-S", << <<"H","E","X","-","L","-","S">>, <<"H","E","X","L","S">> >> >>,
       <<"HEX-L-Z", << <<"H","E","X","-","L","-","Z">>, <<"H","E","X","L","Z">> >> >> >>

\* detect_product comparing the serial as given, without serial.upper()
detect_product_case_sensitive(serial) ==
    LET serial_upper == serial
        hit(i) == \E j \in 1..Len(patterns[i][2]) : startswith(serial_upper, patterns[i][2][j])
        hits == {i \in 1..Len(patterns) : hit(i)}
    IN  IF hits = {} THEN ""
        ELSE patterns[CHOOSE i \in hits : \A k \in hits : i <= k][1]

\* detect_product: the first table entry one of whose prefixes starts the
\* upper-cased serial; "" stands for None (both are falsy in `if not product`)
detect_product(serial) ==
    LET serial_upper == upper(serial)
        hit(i) == \E j \in 1..Len(patterns[i][2]) : startswith(serial_upper, patterns[i][2][j])
        hits == {i \in 1..Len(patterns) : hit(i)}
    IN  IF hits = {} THEN ""
        ELSE patterns[CHOOSE i \in hits : \A k \in hits : i <= k][1]

\* ------------------------------------------------------------------------
\* State
\* ------------------------------------------------------------------------
VARIABLES
    pc,           \* pc[t]: position of thread t
    robot,        \* robot[t]: the MarathonRobot thread t calls (0: none yet)
    calls,        \* calls[t]: run_marathon calls thread t has made
    is_running,   \* is_running[r]: MarathonRobot.is_running
    playwright,   \* playwright[r]: MarathonRobot.playwright (engine handle or None)
    browser,      \* browser[r]: MarathonRobot.browser (browser handle or None)
    engines,      \* engine processes started and not stopped
    browsers,     \* browser processes launched and not closed
    product,      \* product[t]: argument of the current call
    serials,      \* serials[t]: argument of the current call
    context,      \* context[t]: local `context` of the current call
    page,         \* page[t]: local `page` of the current call
    success,      \* success[t]: local `success` of the current call
    raised,       \* raised[t]: where the exception caught at line 527 was raised ("" if none)
    swallowed,    \* swallowed[t]: exceptions swallowed by the inner handlers of steps 7 and 10
    events,       \* events[t]: status events emitted by the current call, in order
    page_ops,     \* page_ops[t]: what steps 1 and 7 of the current call saw and did on the page
    history,      \* content of BATCH_HISTORY_FILE
    statistics,   \* content of STATISTICS_FILE
    loaded,       \* loaded[t]: what run_task's current ledger update has read
    completions,  \* completions[t]: 'marathon_complete' payloads sent for request t
    request,      \* request[t]: the `data` of socket request t
    emit_status,  \* emit_status[r]: MarathonRobot.emit_status, the callback given to __init__
    last_emitter, \* the thread whose 'status' event socketio.emit broadcast last (0: none)
    release_failed, \* browser / engine processes whose close() / stop() raised
    input,        \* argument of the function applied in SpecValidate and SpecDetect
    output,       \* its result
    adds          \* BatchHistory.add calls made in SpecHistory

robotVars == <<is_running, playwright, browser, engines, browsers>>
callVars == <<product, serials, context, page, success, raised, swallowed, events, page_ops>>
ledgerVars == <<history, statistics, loaded, completions>>
serverVars == <<request, emit_status, last_emitter>>
testVars == <<input, output, adds>>
vars == <<pc, robot, calls, robotVars, callVars, ledgerVars, serverVars, release_failed, testVars>>

\* one status event: emit(message, status); arg carries str(e) of the error event
Event(message, arg, status) == [message |-> message, arg |-> arg, status |-> status]

StepMessages ==
    <<"Step 1/10: Logging into Odoo...",
      "Step 2/10: Loading Manufacturing Orders...",
      "Step 3/10: Creating new production...",
      "Step 4/10: Setting product...",
      "Step 5/10: Setting quantity...",
      "Step 6/10: Confirming order...",
      "Step 7/10: Opening serial numbers...",
      "Step 8/10: Entering serial numbers...",
      "Step 9/10: Generating serial numbers...",
      "Step 10/10: Marking as done...">>

StepPc == <<"step1", "step2", "step3", "step4", "step5", "step6", "step7", "step8", "step9", "step10">>

StepEvent(k) == Event(StepMessages[k], "", "info")
EngineEvent == Event("Starting browser engine...", "", "info")
BrowserEvent == Event("Launching headless browser...", "", "info")
LoggedInEvent == Event("Logged in successfully", "", "info")
LoginFailedEvent == Event("Login failed - check credentials", "", "error")
SuccessEvent == Event("Marathon completed successfully!", "", "success")
ErrorEvent(e) == Event("Error: ", e, "error")

\* MarathonRobot.emit: hand the event to emit_status
emit(log, e) == Append(log, e)

\* emit_status as defined by handle_marathon (lines 713-714): the events the
\* step has appended to the log of the run are broadcast by socketio.emit
Broadcasts(t) == emit_status[robot[t]] = "socketio" /\ Len(events'[t]) > Len(events[t])

status_sink(t) == last_emitter' = IF Broadcasts(t) THEN t ELSE last_emitter

\* the handle of a process started by thread t during its current call
NewHandle(t) == <<t, calls[t]>>

\* the locals of a call, as set by lines 414-416 (and an empty event log)
FreshCall(t) ==
    /\ context' = [context EXCEPT ![t] = "None"]
    /\ page' = [page EXCEPT ![t] = "None"]
    /\ success' = [success EXCEPT ![t] = FALSE]
    /\ raised' = [raised EXCEPT ![t] = ""]
    /\ swallowed' = [swallowed EXCEPT ![t] = {}]
    /\ page_ops' = [page_ops EXCEPT ![t] = <<>>]
    /\ events' = [events EXCEPT ![t] = <<>>]

\* ------------------------------------------------------------------------
\* MarathonRobot.run_marathon
\* ------------------------------------------------------------------------

\* rm_guard with the guard inside the try block: the finally clause clears the
\* flag on the busy path too
rm_guard_in_try(t) ==
    /\ pc[t] = "guard"
    /\ pc' = [pc EXCEPT ![t] = IF is_running[robot[t]] THEN "rm_busy" ELSE "begin"]
    /\ is_running' = [is_running EXCEPT ![robot[t]] = FALSE]
    /\ UNCHANGED <<robot, calls, playwright, browser, engines, browsers, callVars, ledgerVars>>
    /\ status_sink(t)
    /\ UNCHANGED <<request, emit_status, release_failed, page_ops, testVars>>

\* line 410: `if self.is_running: return False`
rm_guard(t) ==
    /\ pc[t] = "guard"
    /\ pc' = [pc EXCEPT ![t] = IF is_running[robot[t]] THEN "rm_busy" ELSE "begin"]
    /\ UNCHANGED <<robot, calls, robotVars, callVars, ledgerVars>>
    /\ status_sink(t)
    /\ UNCHANGED <<request, emit_status, release_failed, page_ops, testVars>>

\* lines 413-416: `self.is_running = True` and the locals
rm_begin(t) ==
    /\ pc[t] = "begin"
    /\ is_running' = [is_running EXCEPT ![robot[t]] = TRUE]
    /\ pc' = [pc EXCEPT ![t] = "eb_engine"]
    /\ UNCHANGED <<robot, calls, playwright, browser, engines, browsers, callVars, ledgerVars>>
    /\ status_sink(t)
    /\ UNCHANGED <<request, emit_status, release_failed, page_ops, testVars>>

\* `except Exception as e` (lines 527-529): the error event, then the finally block
except_Exception(t, log, e) ==
    /\ events' = [events EXCEPT ![t] = emit(log, ErrorEvent(e))]
    /\ raised' = [raised EXCEPT ![t] = e]
    /\ pc' = [pc EXCEPT ![t] = "finally"]

\* ensure_browser, lines 384-385: the engine check and its status event
eb_engine(t) ==
    /\ pc[t] = "eb_engine"
    /\ IF playwright[robot[t]] = None
       THEN /\ events' = [events EXCEPT ![t] = emit(@, EngineEvent)]
            /\ pc' = [pc EXCEPT ![t] = "eb_start"]
       ELSE /\ pc' = [pc EXCEPT ![t] = "eb_browser"]
            /\ UNCHANGED events
    /\ UNCHANGED <<robot, calls, robotVars, product, serials, context, page, success,
                   raised, swallowed, ledgerVars>>
    /\ status_sink(t)
    /\ UNCHANGED <<request, emit_status, release_failed, page_ops, testVars>>

\* ensure_browser, line 386: sync_playwright().start() returns or raises
eb_start(t) ==
    /\ pc[t] = "eb_start"
    /\ \E ok \in BOOLEAN :
         IF ok
         THEN /\ playwright' = [playwright EXCEPT ![robot[t]] = NewHandle(t)]
              /\ engines' = engines \cup {NewHandle(t)}
              /\ pc' = [pc EXCEPT ![t] = "eb_browser"]
              /\ UNCHANGED <<events, raised>>
         ELSE /\ except_Exception(t, events[t], "engine_start")
              /\ UNCHANGED <<playwright, engines>>
    /\ UNCHANGED <<robot, calls, is_running, browser, browsers, product, serials, context,
                   page, success, swallowed, ledgerVars>>
    /\ status_sink(t)
    /\ UNCHANGED <<request, emit_status, release_failed, page_ops, testVars>>

\* ensure_browser launching a browser whether or not one exists
eb_browser_unconditional(t) ==
    /\ pc[t] = "eb_browser"
    /\ events' = [events EXCEPT ![t] = emit(@, BrowserEvent)]
    /\ pc' = [pc EXCEPT ![t] = "eb_launch"]
    /\ UNCHANGED <<robot, calls, robotVars, product, serials, context, page, success,
                   raised, swallowed, ledgerVars>>
    /\ status_sink(t)
    /\ UNCHANGED <<request, emit_status, release_failed, page_ops, testVars>>

\* ensure_browser, lines 388-389: the browser check and its status event
eb_browser(t) ==
    /\ pc[t] = "eb_browser"
    /\ IF browser[robot[t]] = None
       THEN /\ events' = [events EXCEPT ![t] = emit(@, BrowserEvent)]
            /\ pc' = [pc EXCEPT ![t] = "eb_launch"]
       ELSE /\ pc' = [pc EXCEPT ![t] = "new_context"]
            /\ UNCHANGED events
    /\ UNCHANGED <<robot, calls, robotVars, product, serials, context, page, success,
                   raised, swallowed, ledgerVars>>
    /\ status_sink(t)
    /\ UNCHANGED <<request, emit_status, release_failed, page_ops, testVars>>

\* ensure_browser, lines 390-393: self.playwright.chromium.launch(...) returns or
\* raises (it raises when self.playwright has been reset to None meanwhile)
eb_launch(t) ==
    /\ pc[t] = "eb_launch"
    /\ \E ok \in BOOLEAN :
         IF ok /\ playwright[robot[t]] # None
         THEN /\ browser' = [browser EXCEPT ![robot[t]] = NewHandle(t)]
              /\ browsers' = browsers \cup {NewHandle(t)}
              /\ pc' = [pc EXCEPT ![t] = "new_context"]
              /\ UNCHANGED <<events, raised>>
         ELSE /\ except_Exception(t, events[t], "browser_launch")
              /\ UNCHANGED <<browser, browsers>>
    /\ UNCHANGED <<robot, calls, is_running, playwright, engines, product, serials, context,
                   page, success, swallowed, ledgerVars>>
    /\ status_sink(t)
    /\ UNCHANGED <<request, emit_status, release_failed, page_ops, testVars>>

\* new_context with the step 1 event emitted before the context exists
new_context_after_emit(t) ==
    /\ pc[t] = "new_context"
    /\ \E ok \in BOOLEAN :
         IF ok /\ browser[robot[t]] # None
         THEN /\ context' = [context EXCEPT ![t] = "open"]
              /\ events' = [events EXCEPT ![t] = emit(@, StepEvent(1))]
              /\ pc' = [pc EXCEPT ![t] = "new_page"]
              /\ UNCHANGED raised
         ELSE /\ except_Exception(t, emit(events[t], StepEvent(1)), "new_context")
              /\ UNCHANGED context
    /\ UNCHANGED <<robot, calls, robotVars, product, serials, page, success, swallowed,
                   ledgerVars>>
    /\ status_sink(t)
    /\ UNCHANGED <<request, emit_status, release_failed, page_ops, testVars>>

\* line 422: self.browser.new_context() returns or raises
new_context(t) ==
    /\ pc[t] = "new_context"
    /\ \E ok \in BOOLEAN :
         IF ok /\ browser[robot[t]] # None
         THEN /\ context' = [context EXCEPT ![t] = "open"]
              /\ pc' = [pc EXCEPT ![t] = "new_page"]
              /\ UNCHANGED <<events, raised>>
         ELSE /\ except_Exception(t, events[t], "new_context")
              /\ UNCHANGED context
    /\ UNCHANGED <<robot, calls, robotVars, product, serials, page, success, swallowed,
                   ledgerVars>>
    /\ status_sink(t)
    /\ UNCHANGED <<request, emit_status, release_failed, page_ops, testVars>>

\* line 423: context.new_page() returns or raises
new_page(t) ==
    /\ pc[t] = "new_page"
    /\ \E ok \in BOOLEAN :
         IF ok
         THEN /\ page' = [page EXCEPT ![t] = "open"]
              /\ pc' = [pc EXCEPT ![t] = "step1"]
              /\ UNCHANGED <<events, raised>>
         ELSE /\ except_Exception(t, events[t], "new_page")
              /\ UNCHANGED page
    /\ UNCHANGED <<robot, calls, robotVars, product, serials, context, success, swallowed,
                   ledgerVars>>
    /\ status_sink(t)
    /\ UNCHANGED <<request, emit_status, release_failed, page_ops, testVars>>

\* Step 1, lines 428-443.  The page answers in one of five ways:
\*   "raise"      goto raises
\*   "raise_form" the URL shows the login path and fill / click raises
\*   "skip"       the URL no longer shows the login path: the form is skipped
\*   "submitted"  the form is submitted and the URL leaves the login path
\*   "rejected"   the form is submitted and the URL still shows the login path
LoginOutcomes == {"raise", "raise_form", "skip", "submitted", "rejected"}

\* what the call saw ("url_login": "login" in page.url.lower(), lines 432 and
\* 438) and did ("submit": lines 433-435) on the page, per outcome
PageOps(o) ==
    CASE o = "raise" -> <<>>
      [] o = "raise_form" -> <<"url_login">>
      [] o = "skip" -> <<"url_other">>
      [] o = "submitted" -> <<"url_login", "submit", "url_other">>
      [] o = "rejected" -> <<"url_login", "submit", "url_login">>

\* step1 with the 'Logged in successfully' event inside the `if "login" in url`
\* block: it is missing when the form is skipped
step1_emit_in_branch(t) ==
    /\ pc[t] = "step1"
    /\ LET log == emit(events[t], StepEvent(1))
       IN  \E o \in LoginOutcomes :
             /\ page_ops' = [page_ops EXCEPT ![t] = PageOps(o)]
             /\ CASE o \in {"raise", "raise_form"} -> except_Exception(t, log, "step1")
                  [] o = "rejected" ->
                       /\ events' = [events EXCEPT ![t] = emit(log, LoginFailedEvent)]
                       /\ pc' = [pc EXCEPT ![t] = "finally"]
                       /\ UNCHANGED raised
                  [] o = "submitted" ->
                       /\ events' = [events EXCEPT ![t] = emit(log, LoggedInEvent)]
                       /\ pc' = [pc EXCEPT ![t] = "step2"]
                       /\ UNCHANGED raised
                  [] OTHER ->
                       /\ events' = [events EXCEPT ![t] = log]
                       /\ pc' = [pc EXCEPT ![t] = "step2"]
                       /\ UNCHANGED raised
    /\ UNCHANGED <<robot, calls, robotVars, product, serials, context, page, success,
                   swallowed, ledgerVars>>
    /\ status_sink(t)
    /\ UNCHANGED <<request, emit_status, release_failed, testVars>>

step1(t) ==
    /\ pc[t] = "step1"
    /\ LET log == emit(events[t], StepEvent(1))
       IN  \E o \in LoginOutcomes :
             /\ page_ops' = [page_ops EXCEPT ![t] = PageOps(o)]
             /\ CASE o \in {"raise", "raise_form"} -> except_Exception(t, log, "step1")
                  [] o = "rejected" ->
                       /\ events' = [events EXCEPT ![t] = emit(log, LoginFailedEvent)]
                       /\ pc' = [pc EXCEPT ![t] = "finally"]
                       /\ UNCHANGED raised
                  [] OTHER ->
                       /\ events' = [events EXCEPT ![t] = emit(log, LoggedInEvent)]
                       /\ pc' = [pc EXCEPT ![t] = "step2"]
                       /\ UNCHANGED raised
    /\ UNCHANGED <<robot, calls, robotVars, product, serials, context, page, success,
                   swallowed, ledgerVars>>
    /\ status_sink(t)
    /\ UNCHANGED <<request, emit_status, release_failed, testVars>>

\* Steps 2-6, 8 and 9 (lines 445-479, 491-503): the step's event, then its waits
\* and interactions, any of which may raise
LinearSteps == {2, 3, 4, 5, 6, 8, 9}

step(t, k) ==
    /\ pc[t] = StepPc[k]
    /\ LET log == emit(events[t], StepEvent(k))
       IN  \E ok \in BOOLEAN :
             IF ok
             THEN /\ events' = [events EXCEPT ![t] = log]
                  /\ pc' = [pc EXCEPT ![t] = StepPc[k + 1]]
                  /\ UNCHANGED raised
             ELSE except_Exception(t, log, StepPc[k])
    /\ UNCHANGED <<robot, calls, robotVars, product, serials, context, page, success,
                   swallowed, ledgerVars>>
    /\ status_sink(t)
    /\ UNCHANGED <<request, emit_status, release_failed, page_ops, testVars>>

\* step7 without the inner handler: a failure of the primary locator goes to
\* the outer handler and the fallback locator is never tried
step7_primary_only(t) ==
    /\ pc[t] = "step7"
    /\ LET log == emit(events[t], StepEvent(7))
       IN  \E primary \in BOOLEAN :
             /\ page_ops' = [page_ops EXCEPT ![t] = Append(@, "locator_primary")]
             /\ UNCHANGED swallowed
             /\ IF primary
                THEN /\ events' = [events EXCEPT ![t] = log]
                     /\ pc' = [pc EXCEPT ![t] = "step8"]
                     /\ UNCHANGED raised
                ELSE except_Exception(t, log, "step7")
    /\ UNCHANGED <<robot, calls, robotVars, product, serials, context, page, success,
                   ledgerVars>>
    /\ status_sink(t)
    /\ UNCHANGED <<request, emit_status, release_failed, testVars>>

\* Step 7, lines 481-489: the primary locator; if it raises, the bare `except`
\* clicks the fallback locator, which may raise to the outer handler
step7(t) ==
    /\ pc[t] = "step7"
    /\ LET log == emit(events[t], StepEvent(7))
       IN  \E primary \in BOOLEAN, fallback \in BOOLEAN :
             IF primary
             THEN /\ fallback
                  /\ page_ops' = [page_ops EXCEPT ![t] = Append(@, "locator_primary")]
                  /\ events' = [events EXCEPT ![t] = log]
                  /\ pc' = [pc EXCEPT ![t] = "step8"]
                  /\ UNCHANGED <<raised, swallowed>>
             ELSE /\ swallowed' = [swallowed EXCEPT ![t] = @ \cup {"step7_primary"}]
                  /\ page_ops' = [page_ops EXCEPT ![t] =
                                     @ \o <<"locator_primary", "locator_fallback">>]
                  /\ IF fallback
                     THEN /\ events' = [events EXCEPT ![t] = log]
                          /\ pc' = [pc EXCEPT ![t] = "step8"]
                          /\ UNCHANGED raised
                     ELSE except_Exception(t, log, "step7")
    /\ UNCHANGED <<robot, calls, robotVars, product, serials, context, page, success,
                   ledgerVars>>
    /\ status_sink(t)
    /\ UNCHANGED <<request, emit_status, release_failed, testVars>>

\* Step 10 and the confirmation dialog, lines 505-525: both `try` blocks end in
\* `except: pass`, then success = True and the success event
step10(t) ==
    /\ pc[t] = "step10"
    /\ \E done \in BOOLEAN, dialog \in BOOLEAN :
         /\ swallowed' = [swallowed EXCEPT ![t] =
                @ \cup (IF done THEN {} ELSE {"step10_done"})
                  \cup (IF dialog THEN {} ELSE {"step10_dialog"})]
         /\ success' = [success EXCEPT ![t] = TRUE]
         /\ events' = [events EXCEPT ![t] = emit(emit(@, StepEvent(10)), SuccessEvent)]
         /\ pc' = [pc EXCEPT ![t] = "finally"]
    /\ UNCHANGED <<robot, calls, robotVars, product, serials, context, page, raised,
                   ledgerVars>>
    /\ status_sink(t)
    /\ UNCHANGED <<request, emit_status, release_failed, page_ops, testVars>>

\* rm_finally with the flag cleared at the end of the try block instead of
\* in the finally clause: a failed run leaves it set
rm_finally_on_success(t) ==
    /\ pc[t] = "finally"
    /\ is_running' = [is_running EXCEPT ![robot[t]] = IF success[t] THEN FALSE ELSE @]
    /\ pc' = [pc EXCEPT ![t] = "close_page"]
    /\ UNCHANGED <<robot, calls, playwright, browser, engines, browsers, callVars, ledgerVars>>
    /\ status_sink(t)
    /\ UNCHANGED <<request, emit_status, release_failed, page_ops, testVars>>

\* line 532: `self.is_running = False`
rm_finally(t) ==
    /\ pc[t] = "finally"
    /\ is_running' = [is_running EXCEPT ![robot[t]] = FALSE]
    /\ pc' = [pc EXCEPT ![t] = "close_page"]
    /\ UNCHANGED <<robot, calls, playwright, browser, engines, browsers, callVars, ledgerVars>>
    /\ status_sink(t)
    /\ UNCHANGED <<request, emit_status, release_failed, page_ops, testVars>>

\* lines 533-535 and 538-539: page.close(); if it raises, the bare `except`
\* ends the block
close_page(t) ==
    /\ pc[t] = "close_page"
    /\ IF page[t] # "None"
       THEN \E ok \in BOOLEAN :
              IF ok
              THEN /\ page' = [page EXCEPT ![t] = "closed"]
                   /\ pc' = [pc EXCEPT ![t] = "close_context"]
              ELSE /\ page' = [page EXCEPT ![t] = "close_failed"]
                   /\ pc' = [pc EXCEPT ![t] = "rm_ret"]
       ELSE /\ pc' = [pc EXCEPT ![t] = "close_context"]
            /\ UNCHANGED page
    /\ UNCHANGED <<robot, calls, robotVars, product, serials, context, success, raised,
                   swallowed, events, ledgerVars>>
    /\ status_sink(t)
    /\ UNCHANGED <<request, emit_status, release_failed, page_ops, testVars>>

\* lines 536-539 and 541: context.close(), then `return success`
close_context(t) ==
    /\ pc[t] = "close_context"
    /\ IF context[t] # "None"
       THEN \E ok \in BOOLEAN :
              context' = [context EXCEPT ![t] = IF ok THEN "closed" ELSE "close_failed"]
       ELSE UNCHANGED context
    /\ pc' = [pc EXCEPT ![t] = "rm_ret"]
    /\ UNCHANGED <<robot, calls, robotVars, product, serials, page, success, raised,
                   swallowed, events, ledgerVars>>
    /\ status_sink(t)
    /\ UNCHANGED <<request, emit_status, release_failed, page_ops, testVars>>

run_marathon(t) ==
    \/ rm_guard(t)
    \/ rm_begin(t)
    \/ eb_engine(t)
    \/ eb_start(t)
    \/ eb_browser(t)
    \/ eb_launch(t)
    \/ new_context(t)
    \/ new_page(t)
    \/ step1(t)
    \/ \E k \in LinearSteps : step(t, k)
    \/ step7(t)
    \/ step10(t)
    \/ rm_finally(t)
    \/ close_page(t)
    \/ close_context(t)

\* the value run_marathon returns: False at line 411, `success` at line 541
\* (False after the `return False` of line 441, where success is still False)
Returned(t) == pc[t] \in {"rm_ret", "rm_busy"}
ret(t) == pc[t] = "rm_ret" /\ success[t]

\* ------------------------------------------------------------------------
\* MarathonRobot.cleanup, lines 395-406: browser.close() then playwright.stop();
\* an exception of either ends the try block; both handles are reset
\* ------------------------------------------------------------------------
CleanupOutcomes == {"ok", "close_raises", "stop_raises"}

cleanup(r, o) ==
    /\ browsers' = IF browser[r] # None /\ o # "close_raises"
                   THEN browsers \ {browser[r]} ELSE browsers
    /\ engines' = IF playwright[r] # None /\ (o = "ok" \/ (o = "close_raises" /\ browser[r] = None))
                  THEN engines \ {playwright[r]} ELSE engines
    /\ release_failed' = release_failed
            \cup (IF browser[r] # None /\ o = "close_raises" THEN {<<"browser", browser[r]>>} ELSE {})
            \cup (IF playwright[r] # None /\ o = "stop_raises" THEN {<<"engine", playwright[r]>>} ELSE {})
    /\ browser' = [browser EXCEPT ![r] = None]
    /\ playwright' = [playwright EXCEPT ![r] = None]

\* ------------------------------------------------------------------------
\* Run ledger: BatchHistory and Statistics
\* ------------------------------------------------------------------------
Today == "today"     \* datetime.now().strftime("%Y-%m-%d")

EmptyStatistics ==
    [daily |-> <<>>, products |-> <<>>, total_serials |-> 0, total_batches |-> 0,
     success_count |-> 0, error_count |-> 0]

Min(a, b) == IF a <= b THEN a ELSE b

\* BatchHistory.add cutting the loaded history before the insertion
history_add_cut_first(loaded_history, batch_serials, batch_product, batch_success) ==
    LET batch == [serials |-> batch_serials, count |-> Len(batch_serials),
                  product |-> batch_product, success |-> batch_success]
        cut == SubSeq(loaded_history, 1, Min(Len(loaded_history), MAX_BATCHES))
    IN  <<batch>> \o cut

\* BatchHistory.add, lines 115-123, on the loaded history
history_add(loaded_history, batch_serials, batch_product, batch_success) ==
    LET batch == [serials |-> batch_serials, count |-> Len(batch_serials),
                  product |-> batch_product, success |-> batch_success]
        inserted == <<batch>> \o loaded_history
    IN  SubSeq(inserted, 1, Min(Len(inserted), MAX_BATCHES))

\* Statistics.record_batch adding one serial per batch to total_serials
record_batch_one_per_batch(data, today, serial_count, batch_product, batch_success) ==
    LET day == IF today \in DOMAIN data.daily THEN data.daily[today]
               ELSE [serials |-> 0, batches |-> 0, success |-> 0, errors |-> 0]
        day2 == [serials |-> day.serials + serial_count,
                 batches |-> day.batches + 1,
                 success |-> day.success + (IF batch_success THEN 1 ELSE 0),
                 errors |-> day.errors + (IF batch_success THEN 0 ELSE 1)]
        count == IF batch_product \in DOMAIN data.products THEN data.products[batch_product] ELSE 0
    IN  [daily |-> (today :> day2) @@ data.daily,
         products |-> (batch_product :> (count + serial_count)) @@ data.products,
         total_serials |-> data.total_serials + 1,
         total_batches |-> data.total_batches + 1,
         success_count |-> data.success_count + (IF batch_success THEN 1 ELSE 0),
         error_count |-> data.error_count + (IF batch_success THEN 0 ELSE 1)]

\* Statistics.record_batch, lines 158-179, on the loaded data, on the day `today`
record_batch_on(data, today, serial_count, batch_product, batch_success) ==
    LET day == IF today \in DOMAIN data.daily THEN data.daily[today]
               ELSE [serials |-> 0, batches |-> 0, success |-> 0, errors |-> 0]
        day2 == [serials |-> day.serials + serial_count,
                 batches |-> day.batches + 1,
                 success |-> day.success + (IF batch_success THEN 1 ELSE 0),
                 errors |-> day.errors + (IF batch_success THEN 0 ELSE 1)]
        count == IF batch_product \in DOMAIN data.products THEN data.products[batch_product] ELSE 0
    IN  [daily |-> (today :> day2) @@ data.daily,
         products |-> (batch_product :> (count + serial_count)) @@ data.products,
         total_serials |-> data.total_serials + serial_count,
         total_batches |-> data.total_batches + 1,
         success_count |-> data.success_count + (IF batch_success THEN 1 ELSE 0),
         error_count |-> data.error_count + (IF batch_success THEN 0 ELSE 1)]

\* Statistics.record_batch on the day the runs of Spec take place
record_batch(data, serial_count, batch_product, batch_success) ==
    record_batch_on(data, Today, serial_count, batch_product, batch_success)

\* ------------------------------------------------------------------------
\* The server: handle_marathon and its worker thread run_task
\* ------------------------------------------------------------------------
TextBlank == <<" ", "\n">>
TextTwo == <<"H","E","X","P","1","\n","A","B">>
TextUrl == <<" ","u","?","s","=","Z","Z","9","&","y"," ","\n","\n">>
TextDup == <<"H","E","X","P","1","\n","H","E","X","P","1","\n","a","*","b">>

\* the `data` of the socket requests the clients send
Requests ==
    { [serials |-> TextBlank, product |-> "HEX-P", odoo_email |-> "op", odoo_password |-> "pw"],
      [serials |-> TextUrl, product |-> "", odoo_email |-> "op", odoo_password |-> "pw"],
      [serials |-> TextTwo, product |-> "", odoo_email |-> "", odoo_password |-> "pw"],
      [serials |-> TextTwo, product |-> "", odoo_email |-> "op", odoo_password |-> "pw"],
      [serials |-> TextUrl, product |-> "HEX-N", odoo_email |-> "op", odoo_password |-> "pw"],
      [serials |-> TextDup, product |-> "", odoo_email |-> "op", odoo_password |-> "pw"] }

NoRequest == [serials |-> <<>>, product |-> "", odoo_email |-> "", odoo_password |-> ""]

\* the reply of a rejected request: an error status, then marathon_complete
Reject(t, message) ==
    /\ events' = [events EXCEPT ![t] = <<Event(message, "", "error")>>]
    /\ completions' = [completions EXCEPT ![t] = Append(@, [success |-> FALSE])]
    /\ pc' = [pc EXCEPT ![t] = "done"]
    /\ UNCHANGED <<product, serials>>

\* handle_marathon without the `if not product` test that follows the detection
\* (lines 703-706): the run is started with whatever detect_product returned
handle_marathon_unchecked_detection(t) ==
    /\ pc[t] = "idle"
    /\ \A u \in Workers : u < t => pc[u] # "idle"
    /\ \E data \in Requests :
         /\ request' = [request EXCEPT ![t] = data]
         /\ LET cleaned == clean_serials(data.serials)
                chosen == IF data.product # "" \/ cleaned = <<>> THEN data.product
                          ELSE detect_product(cleaned[1])
            IN  IF cleaned = <<>>
                THEN Reject(t, "No valid serials provided")
                ELSE IF data.odoo_email = "" \/ data.odoo_password = ""
                THEN Reject(t, "Odoo credentials required")
                ELSE /\ product' = [product EXCEPT ![t] = chosen]
                     /\ serials' = [serials EXCEPT ![t] = cleaned]
                     /\ pc' = [pc EXCEPT ![t] = "rt_robot"]
                     /\ UNCHANGED <<events, completions>>
    /\ UNCHANGED <<robot, calls, robotVars, context, page, success, raised, swallowed, page_ops,
                   history, statistics, loaded>>
    /\ UNCHANGED <<emit_status, last_emitter, release_failed, testVars>>

\* handle_marathon, lines 687-736; requests are numbered in arrival order
handle_marathon(t) ==
    /\ pc[t] = "idle"
    /\ \A u \in Workers : u < t => pc[u] # "idle"
    /\ \E data \in Requests :
         /\ request' = [request EXCEPT ![t] = data]
         /\ LET cleaned == clean_serials(data.serials)
                chosen == IF data.product # "" \/ cleaned = <<>> THEN data.product
                          ELSE detect_product(cleaned[1])
            IN  IF cleaned = <<>>
                THEN Reject(t, "No valid serials provided")
                ELSE IF chosen = ""
                THEN Reject(t, "Could not detect product - please select manually")
                ELSE IF data.odoo_email = "" \/ data.odoo_password = ""
                THEN Reject(t, "Odoo credentials required")
                ELSE /\ product' = [product EXCEPT ![t] = chosen]
                     /\ serials' = [serials EXCEPT ![t] = cleaned]
                     /\ pc' = [pc EXCEPT ![t] = "rt_robot"]
                     /\ UNCHANGED <<events, completions>>
    /\ UNCHANGED <<robot, calls, robotVars, context, page, success, raised, swallowed, page_ops,
                   history, statistics, loaded>>
    /\ UNCHANGED <<emit_status, last_emitter, release_failed, testVars>>

\* run_task, lines 717-719: a new MarathonRobot, then the call of run_marathon
rt_robot(t) ==
    /\ pc[t] = "rt_robot"
    /\ robot' = [robot EXCEPT ![t] = t]
    /\ calls' = [calls EXCEPT ![t] = 1]
    /\ FreshCall(t)
    /\ pc' = [pc EXCEPT ![t] = "guard"]
    /\ UNCHANGED <<robotVars, product, serials, ledgerVars>>
    /\ emit_status' = [emit_status EXCEPT ![t] = "socketio"]
    /\ UNCHANGED <<request, last_emitter, release_failed, testVars>>

\* run_task, line 722: BatchHistory.add reads the history file; the locals of
\* the finished run_marathon call are gone, its result is kept in `success`
rt_history_load(t) ==
    /\ Returned(t)
    /\ loaded' = [loaded EXCEPT ![t] = history]
    /\ success' = [success EXCEPT ![t] = ret(t)]
    /\ context' = [context EXCEPT ![t] = "None"]
    /\ page' = [page EXCEPT ![t] = "None"]
    /\ raised' = [raised EXCEPT ![t] = ""]
    /\ swallowed' = [swallowed EXCEPT ![t] = {}]
    /\ page_ops' = [page_ops EXCEPT ![t] = <<>>]
    /\ events' = [events EXCEPT ![t] = <<>>]
    /\ pc' = [pc EXCEPT ![t] = "rt_history_save"]
    /\ UNCHANGED <<robot, calls, robotVars, product, serials, history, statistics, completions>>
    /\ UNCHANGED <<serverVars, release_failed, testVars>>

\* run_task, line 722: BatchHistory.add writes the history file
rt_history_save(t) ==
    /\ pc[t] = "rt_history_save"
    /\ history' = history_add(loaded[t], serials[t], product[t], success[t])
    /\ loaded' = [loaded EXCEPT ![t] = <<>>]
    /\ pc' = [pc EXCEPT ![t] = "rt_stats_load"]
    /\ UNCHANGED <<robot, calls, robotVars, callVars, statistics, completions>>
    /\ UNCHANGED <<serverVars, release_failed, testVars>>

\* run_task, line 723: Statistics.record_batch reads the statistics file
rt_stats_load(t) ==
    /\ pc[t] = "rt_stats_load"
    /\ loaded' = [loaded EXCEPT ![t] = statistics]
    /\ pc' = [pc EXCEPT ![t] = "rt_stats_save"]
    /\ UNCHANGED <<robot, calls, robotVars, callVars, history, statistics, completions>>
    /\ UNCHANGED <<serverVars, release_failed, testVars>>

\* run_task, line 723: Statistics.record_batch writes the statistics file
rt_stats_save(t) ==
    /\ pc[t] = "rt_stats_save"
    /\ statistics' = record_batch(loaded[t], Len(serials[t]), product[t], success[t])
    /\ loaded' = [loaded EXCEPT ![t] = <<>>]
    /\ pc' = [pc EXCEPT ![t] = "rt_complete"]
    /\ UNCHANGED <<robot, calls, robotVars, callVars, history, completions>>
    /\ UNCHANGED <<serverVars, release_failed, testVars>>

\* run_task emitting marathon_complete only for a successful run
rt_complete_on_success(t) ==
    /\ pc[t] = "rt_complete"
    /\ completions' = [completions EXCEPT ![t] =
                          IF success[t] THEN Append(@, [success |-> TRUE]) ELSE @]
    /\ pc' = [pc EXCEPT ![t] = "rt_cleanup"]
    /\ UNCHANGED <<robot, calls, robotVars, callVars, history, statistics, loaded>>
    /\ UNCHANGED <<serverVars, release_failed, testVars>>

\* run_task, lines 725-729: the marathon_complete event
rt_complete(t) ==
    /\ pc[t] = "rt_complete"
    /\ completions' = [completions EXCEPT ![t] = Append(@, [success |-> success[t]])]
    /\ pc' = [pc EXCEPT ![t] = "rt_cleanup"]
    /\ UNCHANGED <<robot, calls, robotVars, callVars, history, statistics, loaded>>
    /\ UNCHANGED <<serverVars, release_failed, testVars>>

\* run_task, lines 730-731: robot.cleanup()
rt_cleanup(t) ==
    /\ pc[t] = "rt_cleanup"
    /\ \E o \in CleanupOutcomes : cleanup(robot[t], o)
    /\ pc' = [pc EXCEPT ![t] = "done"]
    /\ UNCHANGED <<robot, calls, is_running, callVars, ledgerVars>>
    /\ UNCHANGED <<serverVars, testVars>>

run_task(t) ==
    \/ rt_robot(t)
    \/ run_marathon(t)
    \/ rt_history_load(t)
    \/ rt_history_save(t)
    \/ rt_stats_load(t)
    \/ rt_stats_save(t)
    \/ rt_complete(t)
    \/ rt_cleanup(t)

\* ------------------------------------------------------------------------
\* The MarathonRobot class called directly
\* ------------------------------------------------------------------------
SerialHEXP1 == <<"H","E","X","P","1">>
SerialAB == <<"A","B">>

\* the arguments of a direct call
RobotCalls == { [product |-> "HEX-P", serials |-> <<SerialHEXP1, SerialAB>>] }

\* a thread calls robot.run_marathon(product, serials, email, password)
Call(t) ==
    /\ pc[t] \in {"idle", "rm_ret", "rm_busy"}
    /\ calls[t] < MaxCalls
    /\ calls' = [calls EXCEPT ![t] = @ + 1]
    /\ \E args \in RobotCalls :
         /\ product' = [product EXCEPT ![t] = args.product]
         /\ serials' = [serials EXCEPT ![t] = args.serials]
    /\ FreshCall(t)
    /\ pc' = [pc EXCEPT ![t] = "guard"]
    /\ UNCHANGED <<robot, robotVars, ledgerVars>>
    /\ UNCHANGED <<serverVars, release_failed, testVars>>

\* a thread calls robot.cleanup() between its run_marathon calls
RobotCleanup(t) ==
    /\ pc[t] \in {"idle", "rm_ret", "rm_busy"}
    /\ \E o \in CleanupOutcomes : cleanup(robot[t], o)
    /\ UNCHANGED <<pc, robot, calls, is_running, callVars, ledgerVars>>
    /\ UNCHANGED <<serverVars, testVars>>

\* ------------------------------------------------------------------------
\* Specifications
\* ------------------------------------------------------------------------
\* MarathonRobot.__init__ (lines 371-375) for every robot; empty ledger files
InitWith(active, robotOf) ==
    /\ pc = [t \in Threads |-> IF t \in active THEN "idle" ELSE "off"]
    /\ robot = [t \in Threads |-> IF t \in active THEN robotOf ELSE 0]
    /\ calls = [t \in Threads |-> 0]
    /\ is_running = [r \in Robots |-> FALSE]
    /\ playwright = [r \in Robots |-> None]
    /\ browser = [r \in Robots |-> None]
    /\ engines = {}
    /\ browsers = {}
    /\ product = [t \in Threads |-> ""]
    /\ serials = [t \in Threads |-> <<>>]
    /\ context = [t \in Threads |-> "None"]
    /\ page = [t \in Threads |-> "None"]
    /\ success = [t \in Threads |-> FALSE]
    /\ raised = [t \in Threads |-> ""]
    /\ swallowed = [t \in Threads |-> {}]
    /\ page_ops = [t \in Threads |-> <<>>]
    /\ events = [t \in Threads |-> <<>>]
    /\ history = <<>>
    /\ statistics = EmptyStatistics
    /\ loaded = [t \in Threads |-> <<>>]
    /\ completions = [t \in Threads |-> <<>>]
    /\ request = [t \in Threads |-> NoRequest]
    /\ emit_status = [r \in Robots |-> IF r = robotOf THEN "caller" ELSE "None"]
    /\ last_emitter = 0
    /\ release_failed = {}

\* no function under test
NoTest == input = <<>> /\ output = <<>> /\ adds = 0

Init == InitWith(Workers, 0) /\ NoTest
Next == \E t \in Workers : handle_marathon(t) \/ run_task(t)
Spec == Init /\ [][Next]_vars

\* one request followed to its end: its worker thread keeps being scheduled,
\* and every wait of run_marathon is bounded by its timeout, so a worker that
\* can take a step takes one
InitLive == InitWith(LiveWorkers, 0) /\ NoTest
NextLive == \E t \in LiveWorkers : handle_marathon(t) \/ run_task(t)
SpecLive == InitLive /\ [][NextLive]_vars /\ \A t \in LiveWorkers : WF_vars(run_task(t))

InitRobot == InitWith(Callers, 1) /\ NoTest
NextRobot == \E t \in Callers : (calls[t] = 0 /\ Call(t)) \/ run_marathon(t)
SpecRobot == InitRobot /\ [][NextRobot]_vars

InitSeq == InitWith(SeqCallers, 1) /\ NoTest
NextSeq == \E t \in SeqCallers : Call(t) \/ run_marathon(t) \/ RobotCleanup(t)
SpecSeq == InitSeq /\ [][NextSeq]_vars

\* the program's variables are untouched by a call of a pure function
programVars == <<pc, robot, calls, robotVars, callVars, ledgerVars, serverVars, release_failed>>

\* ------------------------------------------------------------------------
\* validate_serials, lines 209-232
\* ------------------------------------------------------------------------
\* the body of the loop testing the characters before the length
validate_one_chars_first(st, raw) ==
    LET serial == strip(raw)
        st2 == [st EXCEPT !.seen = @ \cup {serial}]
    IN  IF serial = <<>> THEN st
        ELSE IF serial \in st.seen
        THEN [st EXCEPT !.results.duplicates = Append(@, serial)]
        ELSE IF ~(Range(serial) \subseteq SerialChars)
        THEN [st2 EXCEPT !.results.invalid = Append(@, <<serial, "Invalid characters">>)]
        ELSE IF Len(serial) < MinSerialLen
        THEN [st2 EXCEPT !.results.invalid = Append(@, <<serial, "Too short">>)]
        ELSE IF Len(serial) > MaxSerialLen
        THEN [st2 EXCEPT !.results.invalid = Append(@, <<serial, "Too long">>)]
        ELSE [st2 EXCEPT !.results.valid = Append(@, serial)]

\* the body of the loop (lines 213-230) on the loop state [results, seen]
validate_one(st, raw) ==
    LET serial == strip(raw)
        st2 == [st EXCEPT !.seen = @ \cup {serial}]
    IN  IF serial = <<>> THEN st
        ELSE IF serial \in st.seen
        THEN [st EXCEPT !.results.duplicates = Append(@, serial)]
        ELSE IF Len(serial) < MinSerialLen
        THEN [st2 EXCEPT !.results.invalid = Append(@, <<serial, "Too short">>)]
        ELSE IF Len(serial) > MaxSerialLen
        THEN [st2 EXCEPT !.results.invalid = Append(@, <<serial, "Too long">>)]
        ELSE IF ~(Range(serial) \subseteq SerialChars)
        THEN [st2 EXCEPT !.results.invalid = Append(@, <<serial, "Invalid characters">>)]
        ELSE [st2 EXCEPT !.results.valid = Append(@, serial)]

RECURSIVE validate_loop(_, _)
validate_loop(st, list) ==
    IF list = <<>> THEN st ELSE validate_loop(validate_one(st, Head(list)), Tail(list))

validate_serials(list) ==
    validate_loop([results |-> [valid |-> <<>>, duplicates |-> <<>>, invalid |-> <<>>],
                   seen |-> {}], list).results

\* elements of the lists validated: the four of the documented example, a
\* padded repeat, a blank, a short ill-formed one, and the length boundary
LongSerial(n, c) == [i \in 1..n |-> c]
ValidateItems ==
    { SerialAB, <<"a","*","b">>, <<"x">>, <<" ","A","B","\n">>, <<" ">>, <<"*">>,
      LongSerial(MaxSerialLen, "A"), LongSerial(MaxSerialLen + 1, "A"),
      LongSerial(MaxSerialLen + 1, "*") }

ValidateInputs == UNION { [1..n -> ValidateItems] : n \in 0..MaxList }

InitValidate == InitWith({}, 0) /\ input \in ValidateInputs /\ output = <<>> /\ adds = 0

\* results = validate_serials(serials)
CallValidate ==
    /\ output = <<>>
    /\ output' = <<validate_serials(input)>>
    /\ UNCHANGED <<programVars, input, adds>>

NextValidate == CallValidate
SpecValidate == InitValidate /\ [][NextValidate]_vars

\* ------------------------------------------------------------------------
\* detect_product, lines 235-260, called on its own
\* ------------------------------------------------------------------------
lower(s) == [i \in 1..Len(s) |-> IF s[i] \in Range(UpperLetters)
                                   THEN LowerLetters[CHOOSE k \in 1..26 : UpperLetters[k] = s[i]]
                                   ELSE s[i]]

\* every prefix of the table
Prefixes == UNION { Range(patterns[i][2]) : i \in 1..Len(patterns) }

SerialHexP == <<"H","E","X","-","P","-","S","O","M","E","T","H","I","N","G","-","1","2","3">>
SerialHexTC == <<"H","E","X","T","C","-","0","0","9","9">>
SerialZZZ == <<"Z","Z","Z","-","0","0","1">>

\* serials given to detect_product: every table prefix cut short at each
\* length, continued, preceded by another character, each also in lower
\* case, and the three documented serials
DetectTails == { <<>>, <<"-","1">>, <<"9">> }
DetectInputs ==
    LET cut == UNION { { SubSeq(p, 1, n) \o tail : n \in 0..Len(p), tail \in DetectTails } :
                       p \in Prefixes }
        shifted == { <<"X">> \o p : p \in Prefixes }
        upperCase == cut \cup shifted \cup {SerialHexP, SerialHexTC, SerialZZZ}
    IN  upperCase \cup { lower(x) : x \in upperCase }

InitDetect == InitWith({}, 0) /\ input \in DetectInputs /\ output = <<>> /\ adds = 0

\* product = detect_product(serial)
CallDetect ==
    /\ output = <<>>
    /\ output' = <<detect_product(input)>>
    /\ UNCHANGED <<programVars, input, adds>>

NextDetect == CallDetect
SpecDetect == InitDetect /\ [][NextDetect]_vars

\* ------------------------------------------------------------------------
\* BatchHistory.add, lines 113-124, called repeatedly by one caller
\* ------------------------------------------------------------------------
DigitSeq == <<"0","1","2","3","4","5","6","7","8","9">>

\* str(n)
RECURSIVE Decimal(_)
Decimal(n) == IF n < 10 THEN <<DigitSeq[n + 1]>>
              ELSE Decimal(n \div 10) \o <<DigitSeq[(n % 10) + 1]>>

\* what a caller adds: a product, an outcome, and the sizes of its batches in turn
HistoryScenarios ==
    [product : {"HEX-P", "HEX-N"}, success : BOOLEAN, sizes : {<<1>>, <<2, 0, 3>>}]

\* the arguments of the k-th add: serials "S<k>-<i>", distinct from every other call's
BatchSerials(scenario, k) ==
    [i \in 1..scenario.sizes[((k - 1) % Len(scenario.sizes)) + 1] |->
        <<"S">> \o Decimal(k) \o <<"-">> \o Decimal(i)]

InitHistory == InitWith({}, 0) /\ input \in HistoryScenarios /\ output = <<>> /\ adds = 0

\* BatchHistory.add(serials, product, success): load, insert, cut, save
AddBatch ==
    /\ adds < MaxAdds
    /\ adds' = adds + 1
    /\ history' = history_add(history, BatchSerials(input, adds + 1), input.product, input.success)
    /\ UNCHANGED <<pc, robot, calls, robotVars, callVars, statistics, loaded, completions,
                   serverVars, release_failed, input, output>>

NextHistory == AddBatch
SpecHistory == InitHistory /\ [][NextHistory]_vars

\* ------------------------------------------------------------------------
\* Statistics.record_batch, lines 156-181, called by two threads at once
\* ------------------------------------------------------------------------
\* the arguments and the day of a call: two days, two products, both outcomes
RecordArgs ==
    { [today |-> "2024-01-01", serial_count |-> 1, product |-> "HEX-P", success |-> TRUE],
      [today |-> "2024-01-01", serial_count |-> 2, product |-> "HEX-N", success |-> FALSE],
      [today |-> "2024-01-02", serial_count |-> 2, product |-> "HEX-P", success |-> FALSE],
      [today |-> "2024-01-02", serial_count |-> 3, product |-> "HEX-N", success |-> TRUE] }

InitStats == InitWith(Callers, 0) /\ NoTest

\* line 157: data = Statistics.load()
stats_load(t) ==
    /\ pc[t] = "idle"
    /\ adds < MaxRecords
    /\ adds' = adds + 1
    /\ loaded' = [loaded EXCEPT ![t] = statistics]
    /\ pc' = [pc EXCEPT ![t] = "stats_save"]
    /\ UNCHANGED <<robot, calls, robotVars, callVars, history, statistics, completions,
                   serverVars, release_failed, input, output>>

\* lines 158-181: the counters are updated on the loaded data, then Statistics.save(data)
stats_save(t) ==
    /\ pc[t] = "stats_save"
    /\ \E args \in RecordArgs :
         statistics' = record_batch_on(loaded[t], args.today, args.serial_count,
                                       args.product, args.success)
    /\ loaded' = [loaded EXCEPT ![t] = <<>>]
    /\ pc' = [pc EXCEPT ![t] = "idle"]
    /\ UNCHANGED <<robot, calls, robotVars, callVars, history, completions,
                   serverVars, release_failed, testVars>>

NextStats == \E t \in Callers : stats_load(t) \/ stats_save(t)
SpecStats == InitStats /\ [][NextStats]_vars

\* ------------------------------------------------------------------------
\* Vocabulary of the properties
\* ------------------------------------------------------------------------
\* positions inside the ten-step workflow
InWorkflow(t) == pc[t] \in Range(StepPc)

\* positions of a call that has passed the guard and not yet cleared the flag
InRun == {"begin", "eb_engine", "eb_start", "eb_browser", "eb_launch", "new_context",
          "new_page", "finally"} \cup Range(StepPc)

\* positions between the call of run_marathon and its return
InCall == InRun \cup {"guard", "close_page", "close_context", "rm_ret", "rm_busy"}

StepEvents == {StepEvent(k) : k \in 1..NumSteps}
IsStepEvent(e) == e \in StepEvents
IsErrorEvent(e) == e.status = "error"
IsSuccessEvent(e) == e.status = "success"
StepLog(k) == [i \in 1..k |-> StepEvent(i)]

\* the events of a successful run, from step 1 on
SuccessLog ==
    <<StepEvent(1), LoggedInEvent>> \o [i \in 1..(NumSteps - 1) |-> StepEvent(i + 1)]
        \o <<SuccessEvent>>

\* the events ensure_browser can emit
CreationLogs == {<<>>, <<EngineEvent>>, <<BrowserEvent>>, <<EngineEvent, BrowserEvent>>}

AcquisitionSites == {"engine_start", "browser_launch", "new_context", "new_page"}

\* the step at which the run failed (0: none): the step whose exception reached
\* the outer handler, step 1 for a rejected login, step 10 when locating or
\* clicking 'Mark as Done' raised
LoginRejected(t) == \E i \in 1..Len(events[t]) : events[t][i] = LoginFailedEvent
FailedStep(t) ==
    IF \E k \in 1..NumSteps : raised[t] = StepPc[k]
    THEN CHOOSE k \in 1..NumSteps : raised[t] = StepPc[k]
    ELSE IF LoginRejected(t) THEN 1
    ELSE IF "step10_done" \in swallowed[t] THEN NumSteps
    ELSE 0

\* ------------------------------------------------------------------------
\* Properties
\* ------------------------------------------------------------------------

\* C1: process-wide single-flight: over all socket requests, at most one
\* execution of run_marathon is inside the ten-step workflow at any time.
C1_SingleFlight == Cardinality({t \in Workers : InWorkflow(t)}) <= 1

\* C2: the guard is atomic: two threads calling run_marathon on the same robot
\* never both observe is_running = False and both proceed.
C2_AtomicGuard ==
    \A t \in Callers, u \in Callers :
        (t # u /\ robot[t] = robot[u]) => ~(pc[t] \in InRun /\ pc[u] \in InRun)

\* C3: a call on a robot whose is_running flag is True returns False, emits no
\* status event and leaves is_running, the engine handle, the browser handle and
\* every context and page unchanged.
C3_BusyRejectionNoEffects ==
    [][\A t \in Callers :
         (pc[t] = "guard" /\ is_running[robot[t]] /\ pc'[t] # "guard") =>
            /\ pc'[t] = "rm_busy"
            /\ ~ret(t)'
            /\ events'[t] = <<>>
            /\ events' = events
            /\ robotVars' = robotVars
            /\ context' = context
            /\ page' = page]_vars

C3_Witness ==
    \E t \in Callers, u \in Callers :
        /\ pc[t] = "rm_busy"
        /\ InWorkflow(u)
        /\ is_running[robot[u]]
        /\ robot[t] = robot[u]

\* C4: run_marathon returns True only if no step failed: a run in which a step
\* (the 'Mark as Done' control of step 10 included) fails returns False.
C4_TrueOnlyIfAllSteps ==
    \A t \in SeqCallers : ret(t) => FailedStep(t) = 0

\* C5 as stated: a successful run emits exactly 12 events, the step events in
\* step order, the last one the single success event.
C5_TwelveEvents ==
    \A t \in SeqCallers :
        ret(t) =>
            /\ Len(events[t]) = NumSteps + 2
            /\ SelectSeq(events[t], IsStepEvent) = StepLog(NumSteps)
            /\ SelectSeq(events[t], IsSuccessEvent) = <<SuccessEvent>>
            /\ events[t][Len(events[t])] = SuccessEvent

\* C5 amended: a successful run emits the creation events of ensure_browser
\* (none, or one for each of the engine and the browser it had to create), then
\* exactly 12 events: step 1, 'Logged in successfully', steps 2..10 in order and
\* last the single success event.
C5_SuccessEvents ==
    \A t \in SeqCallers :
        ret(t) => \E pre \in CreationLogs : events[t] = pre \o SuccessLog

C5_Witness ==
    \E t \in SeqCallers : ret(t) /\ events[t] = SuccessLog /\ calls[t] > 1

\* C6: a run that fails at step k emits exactly the step events of steps 1..k,
\* then exactly one terminal error event, and returns False.
C6_FailAtStepK ==
    \A t \in SeqCallers :
        (pc[t] = "rm_ret" /\ FailedStep(t) # 0) =>
            /\ SelectSeq(events[t], IsStepEvent) = StepLog(FailedStep(t))
            /\ Len(SelectSeq(events[t], IsErrorEvent)) = 1
            /\ IsErrorEvent(events[t][Len(events[t])])
            /\ ~ret(t)

\* C7: an exception raised during acquisition or during a step produces one
\* terminal error event carrying its description, and run_marathon returns False.
C7_NoExceptionEscapes ==
    \A t \in SeqCallers :
        (pc[t] = "rm_ret" /\ (raised[t] # "" \/ "step10_done" \in swallowed[t])) =>
            /\ \E e \in {raised[t], "step10"} :
                   SelectSeq(events[t], IsErrorEvent) = <<ErrorEvent(e)>>
            /\ ~ret(t)

\* C8: once an accepted call has returned, by whatever path, is_running is
\* False, and no later call on the robot is rejected as busy.
C8_AvailableAfterRun ==
    \A t \in SeqCallers :
        /\ pc[t] = "rm_ret" => ~is_running[robot[t]]
        /\ pc[t] # "rm_busy"

C8_Witness ==
    \E t \in SeqCallers : calls[t] > 1 /\ pc[t] = "rm_ret" /\ raised[t] # ""

\* C9: by the time run_marathon returns, close has been called on every page
\* and every context the run created, whether or not the other close raised.
C9_Teardown ==
    \A t \in SeqCallers :
        pc[t] = "rm_ret" => (page[t] # "open" /\ context[t] # "open")

\* C10 as stated: no event is emitted before engine, browser, context and page
\* exist, and a run whose acquisition fails emits no event.
C10_NoEventBeforeAcquisition ==
    \A t \in SeqCallers :
        (pc[t] \in InCall /\ page[t] = "None") => events[t] = <<>>

\* C10 amended: until ensure_browser, new_context and new_page have all
\* returned, the only events emitted are the creation events of ensure_browser;
\* a run whose acquisition fails emits after them exactly one terminal error
\* event and nothing else.
C10_OnlyCreationEventsBeforeAcquisition ==
    \A t \in SeqCallers :
        (pc[t] \in InCall /\ page[t] = "None") =>
            IF raised[t] = ""
            THEN events[t] \in CreationLogs
            ELSE /\ raised[t] \in AcquisitionSites
                 /\ \E pre \in CreationLogs : events[t] = pre \o <<ErrorEvent(raised[t])>>

C10_Witness ==
    \E t \in SeqCallers :
        /\ pc[t] = "rm_ret"
        /\ raised[t] = "new_page"
        /\ events[t] = <<EngineEvent, BrowserEvent, ErrorEvent("new_page")>>

\* C11: over all socket requests, at most one browser process exists at any
\* time (it is launched at the first run and reused by the later ones).
C11_OneBrowser == Cardinality(browsers) <= 1

\* C12: in the sequence of broadcast 'status' events, the events of one run
\* are contiguous: when a run broadcasts an event that is not its first, the
\* event broadcast just before was its own.
C12_NoInterleaving ==
    [][\A t \in Workers :
         (robot[t] # 0 /\ events[t] # <<>> /\ Broadcasts(t)) => last_emitter = t]_vars

\* the runs whose ledger update is over
Recorded == {t \in Workers : calls[t] > 0 /\ pc[t] \in {"rt_complete", "rt_cleanup", "done"}}

RECURSIVE SerialsOf(_)
SerialsOf(S) ==
    IF S = {} THEN 0
    ELSE LET t == CHOOSE u \in S : TRUE IN Len(serials[t]) + SerialsOf(S \ {t})

\* C13: once the runs started through handle_marathon are over, the history has
\* one entry per run and the statistics count every run exactly once.
C13_LedgerOncePerRun ==
    (\A t \in Workers : calls[t] > 0 => t \in Recorded) =>
        /\ Len(history) = Cardinality(Recorded)
        /\ statistics.total_batches = Cardinality(Recorded)
        /\ statistics.total_serials = SerialsOf(Recorded)
        /\ statistics.success_count = Cardinality({t \in Recorded : success[t]})
        /\ statistics.error_count = Cardinality({t \in Recorded : ~success[t]})

\* a serial of the Batch Request: 2 to 50 characters of [A-Za-z0-9._-]
WellFormed(serial) ==
    /\ Len(serial) >= MinSerialLen
    /\ Len(serial) <= MaxSerialLen
    /\ Range(serial) \subseteq SerialChars

NoDuplicates(list) == \A i \in 1..Len(list), j \in 1..Len(list) : list[i] = list[j] => i = j

\* C14: the serial list handle_marathon passes to run_marathon is non-empty,
\* has no duplicate, and every element is well-formed.
C14_BatchPrecondition ==
    \A t \in Workers :
        calls[t] > 0 =>
            /\ serials[t] # <<>>
            /\ NoDuplicates(serials[t])
            /\ \A i \in 1..Len(serials[t]) : WellFormed(serials[t][i])

NoDetectionEvent == Event("Could not detect product - please select manually", "", "error")

\* C15: a request without product runs with the product detected from its first
\* serial; when nothing is detected no run is started (no worker, no robot, no
\* call of run_marathon, ledger unchanged) and the client receives an error
\* status, then marathon_complete with success false.  run_marathon is only
\* ever called with a non-empty product.
C15_ProductFallback ==
    [][\A t \in Workers :
         /\ (pc[t] = "idle" /\ pc'[t] # "idle") =>
              LET cleaned == clean_serials(request'[t].serials)
              IN  (request'[t].product = "" /\ cleaned # <<>>) =>
                    IF detect_product(cleaned[1]) = ""
                    THEN /\ pc'[t] = "done"
                         /\ events'[t] = <<NoDetectionEvent>>
                         /\ completions'[t] = <<[success |-> FALSE]>>
                         /\ UNCHANGED <<robot, calls, history, statistics>>
                    ELSE pc'[t] = "rt_robot" => product'[t] = detect_product(cleaned[1])
         /\ pc[t] = "done" => (pc'[t] = "done" /\ calls'[t] = calls[t])
         /\ pc'[t] = "guard" => product'[t] # ""]_vars

C15_Witness ==
    \E t \in Workers, u \in Workers :
        /\ request[t].serials = TextUrl /\ request[t].product = ""
        /\ pc[t] = "done" /\ calls[t] = 0 /\ robot[t] = 0
        /\ completions[t] = <<[success |-> FALSE]>>
        /\ request[u].serials = TextTwo /\ request[u].product = ""
        /\ InWorkflow(u) /\ product[u] = "HEX-P"

\* positions inside ensure_browser
InEnsure(t) == pc[t] \in {"eb_engine", "eb_start", "eb_browser", "eb_launch"}

\* C16: ensure_browser starts the engine only when the engine handle is absent
\* and launches the browser only when the browser handle is absent; with both
\* handles present it creates nothing, changes no handle, emits no event; the
\* creation events appear only when the corresponding handle is created.
C16_EnsureIdempotent ==
    [][\A t \in SeqCallers : InEnsure(t) =>
         LET r == robot[t]
         IN  /\ playwright[r] # None => (playwright'[r] = playwright[r] /\ engines' = engines)
             /\ browser[r] # None => (browser'[r] = browser[r] /\ browsers' = browsers)
             /\ (playwright[r] # None /\ browser[r] # None) =>
                    (events'[t] = events[t] /\ raised'[t] = ""
                       /\ (InEnsure(t)' \/ pc'[t] = "new_context"))
             /\ (pc[t] = "eb_engine" /\ events'[t] # events[t]) =>
                    (playwright[r] = None /\ events'[t] = emit(events[t], EngineEvent))
             /\ (pc[t] = "eb_browser" /\ events'[t] # events[t]) =>
                    (browser[r] = None /\ events'[t] = emit(events[t], BrowserEvent))
             /\ (pc[t] = "eb_engine" /\ playwright[r] = None) =>
                    events'[t] = emit(events[t], EngineEvent)
             /\ (pc[t] = "eb_browser" /\ browser[r] = None) =>
                    events'[t] = emit(events[t], BrowserEvent)]_vars

\* a second call has gone through ensure_browser with the handles of the first
C16_Witness ==
    \E t \in SeqCallers :
        /\ calls[t] = 2 /\ pc[t] = "new_context" /\ events[t] = <<>>
        /\ playwright[robot[t]] = <<t, 1>> /\ browser[robot[t]] = <<t, 1>>
        /\ engines = {<<t, 1>>} /\ browsers = {<<t, 1>>}

\* C17: cleanup closes the browser and stops the engine whenever they exist,
\* swallows the error of either operation and leaves both handles None, so
\* every handle it drops was released or its release was attempted and failed.
C17_CleanupReleasesBoth ==
    [][\A r \in Robots :
         /\ (browser[r] # None /\ browser'[r] = None) =>
               (browser[r] \notin browsers' \/ <<"browser", browser[r]>> \in release_failed')
         /\ (playwright[r] # None /\ playwright'[r] = None) =>
               (playwright[r] \notin engines' \/ <<"engine", playwright[r]>> \in release_failed')]_vars

\* the non-blank elements of a list, trimmed, in order
RECURSIVE Trimmed(_)
Trimmed(list) ==
    IF list = <<>> THEN <<>>
    ELSE IF strip(Head(list)) = <<>> THEN Trimmed(Tail(list))
    ELSE <<strip(Head(list))>> \o Trimmed(Tail(list))

\* the class of the i-th trimmed element
ClassOf(kept, i) ==
    IF \E j \in 1..(i - 1) : kept[j] = kept[i] THEN "duplicate"
    ELSE IF Len(kept[i]) < 2 THEN "Too short"
    ELSE IF Len(kept[i]) > 50 THEN "Too long"
    ELSE IF \E k \in 1..Len(kept[i]) : kept[i][k] \notin SerialChars THEN "Invalid characters"
    ELSE "valid"

\* the first n trimmed elements of the classes cls, in order, tagged or not
RECURSIVE OfClass(_, _, _, _)
OfClass(kept, n, cls, tagged) ==
    IF n = 0 THEN <<>>
    ELSE LET rest == OfClass(kept, n - 1, cls, tagged)
         IN  IF ClassOf(kept, n) \in cls
             THEN Append(rest, IF tagged THEN <<kept[n], ClassOf(kept, n)>> ELSE kept[n])
             ELSE rest

ExampleList == <<SerialAB, SerialAB, <<"a","*","b">>, <<"x">> >>

\* C18: validate_serials puts every non-blank trimmed element in exactly one of
\* valid, duplicates, invalid, in input order: repeats in duplicates, first
\* occurrences in invalid with the reason Too short, else Too long, else
\* Invalid characters, else in valid; valid has no duplicate and no ill-formed
\* serial; the documented example gives the documented result.
C18_ValidateClassifies ==
    output # <<>> =>
        LET results == output[1]
            kept == Trimmed(input)
        IN  /\ results.valid = OfClass(kept, Len(kept), {"valid"}, FALSE)
            /\ results.duplicates = OfClass(kept, Len(kept), {"duplicate"}, FALSE)
            /\ results.invalid =
                   OfClass(kept, Len(kept), {"Too short", "Too long", "Invalid characters"}, TRUE)
            /\ Len(results.valid) + Len(results.duplicates) + Len(results.invalid) = Len(kept)
            /\ NoDuplicates(results.valid)
            /\ \A i \in 1..Len(results.valid) : WellFormed(results.valid[i])
            /\ input = ExampleList =>
                   results = [valid |-> <<SerialAB>>, duplicates |-> <<SerialAB>>,
                              invalid |-> << <<<<"a","*","b">>, "Invalid characters">>,
                                             <<<<"x">>, "Too short">> >>]

\* the documented example has been validated
C18_Witness ==
    /\ input = ExampleList
    /\ output # <<>>
    /\ output[1].duplicates = <<SerialAB>>
    /\ Len(output[1].invalid) = 2

\* the <<entry, prefix>> positions of the table whose prefix starts the
\* upper-cased serial
Matches(serial) ==
    { ij \in UNION { {<<i, j>> : j \in 1..Len(patterns[i][2])} : i \in 1..Len(patterns) } :
        LET prefix == patterns[ij[1]][2][ij[2]]
        IN  /\ Len(prefix) <= Len(serial)
            /\ \A k \in 1..Len(prefix) : UpperChar(serial[k]) = prefix[k] }

\* C19: detect_product returns the product of the first table entry with a
\* prefix that starts the upper-cased serial, that entry also holds the
\* longest matching prefix, and no detection is returned when nothing matches;
\* the three documented serials give HEX-P, HEX-T-C and no detection.
C19_DetectFirstLongest ==
    output # <<>> =>
        LET m == Matches(input)
        IN  /\ m = {} => output[1] = ""
            /\ m # {} =>
                 \E first \in m :
                    /\ \A ij \in m : first[1] <= ij[1]
                    /\ output[1] = patterns[first[1]][1]
                    /\ \E longest \in m :
                         /\ longest[1] = first[1]
                         /\ \A ij \in m : Len(patterns[ij[1]][2][ij[2]])
                                            <= Len(patterns[longest[1]][2][longest[2]])
            /\ input = SerialHexP => output[1] = "HEX-P"
            /\ input = SerialHexTC => output[1] = "HEX-T-C"
            /\ input = SerialZZZ => output[1] = ""

\* a lower-case serial with a table prefix has been detected
C19_Witness ==
    /\ input = lower(SerialHexTC)
    /\ output = <<"HEX-T-C">>

LoginStillOnLoginPath(t) == page_ops[t] = <<"url_login", "submit", "url_login">>

\* the branch of step 1 and the events of a rejected login, teardown aside
LoginBranch(t) ==
    /\ (page_ops[t] # <<>> /\ page_ops[t][1] = "url_other") =>
          /\ "submit" \notin Range(page_ops[t])
          /\ raised[t] # "step1" /\ ~LoginRejected(t)
          /\ \E pre \in CreationLogs :
                SubSeq(events[t], 1, Len(pre) + 2) = pre \o <<StepEvent(1), LoggedInEvent>>
    /\ (page_ops[t] # <<>> /\ page_ops[t][1] = "url_login" /\ raised[t] # "step1") =>
          (Len(page_ops[t]) >= 3 /\ page_ops[t][2] = "submit")
    /\ LoginStillOnLoginPath(t) =>
          /\ \E pre \in CreationLogs : events[t] = pre \o <<StepEvent(1), LoginFailedEvent>>
          /\ raised[t] = ""
          /\ pc[t] \in {"finally", "close_page", "close_context", "rm_ret"}
          /\ ~success[t]
          /\ pc[t] = "rm_ret" => (~ret(t) /\ ~is_running[robot[t]])
    /\ (LoginRejected(t) \/ (Len(page_ops[t]) >= 3 /\ page_ops[t][3] = "url_login"))
          => LoginStillOnLoginPath(t)

C21_LoginBranchEvents == \A t \in SeqCallers : LoginBranch(t)

\* C21: when the URL no longer shows the login path the form is skipped and the
\* run continues; otherwise the credentials are submitted, and a URL still on
\* the login path afterwards aborts the run: exactly one error event, nothing
\* of steps 2..10, page and context released, is_running cleared, False returned.
C21_LoginBranch ==
    \A t \in SeqCallers :
        /\ LoginBranch(t)
        /\ (LoginStillOnLoginPath(t) /\ pc[t] = "rm_ret") =>
               (page[t] # "open" /\ context[t] # "open")

\* the locators step 7 has tried, in order
IsLocator(op) == op \in {"locator_primary", "locator_fallback"}
Locators(t) == SelectSeq(page_ops[t], IsLocator)

Arrived(t) == pc[t] # "idle"

\* request t failed validation (lines 694-711)
Invalid(data) ==
    LET cleaned == clean_serials(data.serials)
    IN  \/ cleaned = <<>>
        \/ (data.product = "" /\ detect_product(cleaned[1]) = "")
        \/ data.odoo_email = "" \/ data.odoo_password = ""

\* what holds of request t at every moment and at every step
CompletionState(t) ==
    /\ Len(completions[t]) <= 1
    /\ (Arrived(t) /\ Invalid(request[t])) =>
           (completions[t] = <<[success |-> FALSE]>> /\ pc[t] = "done" /\ calls[t] = 0)
    /\ (Arrived(t) /\ ~Invalid(request[t]) /\ completions[t] # <<>>) =>
           (pc[t] \in {"rt_cleanup", "done"} /\ calls[t] = 1
              /\ completions[t] = <<[success |-> success[t]]>>)

CompletionStep(t) ==
    /\ Returned(t) => success'[t] = ret(t)
    /\ (pc[t] \in {"rt_history_save", "rt_stats_load", "rt_stats_save", "rt_complete",
                   "rt_cleanup", "done"}) => success'[t] = success[t]
    /\ (completions'[t] # completions[t] /\ pc[t] # "idle") => pc[t] = "rt_complete"
    /\ pc'[t] = "rt_complete" => pc[t] \in {"rt_complete", "rt_stats_save"}

\* C23: every request eventually produces exactly one marathon_complete event:
\* at once with success false when validation fails, otherwise after the
\* worker's run_marathon call has returned and the ledger calls have been made,
\* carrying the value run_marathon returned.
C23_OneCompletion ==
    /\ \A t \in LiveWorkers : Arrived(t) ~> (Len(completions[t]) = 1)
    /\ [](\A t \in LiveWorkers : CompletionState(t))
    /\ [][\A t \in LiveWorkers : CompletionStep(t)]_vars

\* with two requests at once: neither worker is ever held up by the other, and
\* the same holds of each request's completion
C23_NoWorkerBlocked ==
    \A t \in Workers :
        /\ (Arrived(t) /\ completions[t] = <<>>) => ENABLED run_task(t)
        /\ CompletionState(t)

C23_CompletionSteps == [][\A t \in Workers : CompletionStep(t)]_vars

\* a request has run to the end and its completion carries True
C23_Witness ==
    \E t \in LiveWorkers :
        /\ ~Invalid(request[t])
        /\ pc[t] = "done" /\ calls[t] = 1 /\ completions[t] = <<[success |-> TRUE]>>

\* the processes started by worker t's robot (handles carry the starting thread)
StartedBy(t, processes) == {h \in processes : h[1] = t}

\* C24: when run_task finishes, every engine started and every browser launched
\* by the worker's robot has been stopped / closed, whatever run_marathon
\* returned and also when closing the browser raises (a release that raised
\* counts as made).
C24_NoProcessOutlivesWorker ==
    \A t \in Workers :
        (pc[t] = "done" /\ calls[t] > 0) =>
            /\ \A h \in StartedBy(t, browsers) : <<"browser", h>> \in release_failed
            /\ \A h \in StartedBy(t, engines) : <<"engine", h>> \in release_failed

\* the sum of a function's values
RECURSIVE SumOf(_)
SumOf(f) ==
    IF DOMAIN f = {} THEN 0
    ELSE LET x == CHOOSE y \in DOMAIN f : TRUE
         IN  f[x] + SumOf([y \in DOMAIN f \ {x} |-> f[y]])

\* C25: in every stored statistics state, total_batches = success_count +
\* error_count, each day's batches = its success + errors, and total_serials =
\* the sum of the per-product counters = the sum of the per-day serials.
C25_StatisticsConsistent ==
    /\ statistics.total_batches = statistics.success_count + statistics.error_count
    /\ \A day \in DOMAIN statistics.daily :
          statistics.daily[day].batches =
              statistics.daily[day].success + statistics.daily[day].errors
    /\ statistics.total_serials = SumOf(statistics.products)
    /\ statistics.total_serials =
          SumOf([day \in DOMAIN statistics.daily |-> statistics.daily[day].serials])

\* three calls have ended, one update was lost, and the stored statistics
\* cover two days and two products
C25_Witness ==
    /\ adds = 3
    /\ \A t \in Callers : pc[t] = "idle"
    /\ statistics.total_batches = 2
    /\ Cardinality(DOMAIN statistics.daily) = 2
    /\ Cardinality(DOMAIN statistics.products) = 2

====
